---- MODULE Spec2Model ----
(***************************************************************************)
(* The balancing engine of bgg_corpus: balance_single_game                 *)
(* (balancing/single_game_balance.py), driven once per game by             *)
(* collect_balanced_reviews_multi_game (balancing/multi_game_balance.py),  *)
(* with create_augmented_review (balancing/helpers.py).                    *)
(*                                                                         *)
(* Lists are sequences, dicts are functions whose DOMAIN is the key set,   *)
(* Python's None is the empty sequence (target_ratio) or the string        *)
(* "None" (category), object identity id(r) is the field id.  random.*     *)
(* calls are nondeterministic choices.  A list that random.shuffle has     *)
(* permuted is kept as the bag of its elements: every order is possible,   *)
(* so the elements with their multiplicities are all that is known of it.  *)
(* Texts are sequences of characters so that str.strip() is computed.      *)
(***************************************************************************)
EXTENDS Integers, Sequences, FiniteSets, Bags, TLC

\* ------------------------------------------------------------------ bounds
\* reviews in the list one balance_single_game call is given directly
MaxReviews == 4
\* game ids one multi-game run iterates, and reviews its loader returns in all
MaxGames == 2
MaxLoaded == 2

\* the largest num_augmentations augment is called with, and the strings
\* the backend returns in all during one call of augment
MaxNum == 2
MaxBackendTexts == 3
\* the seconds a run of the report writer is followed for, and its calls
MaxClock == 180
MaxSaves == 3
\* invocations of collect_balanced_reviews_multi_game that follow one another
MaxRuns == 2
\* the largest category of the target computation
MaxCount == 11
\* reviews in a list whose reviews carry a language tag
MaxTagged == 2

\* ------------------------------------------------------- program constants
AttemptFactor == 5
MaxAugPerReview == 2
MinTextLen == 5
SecondsPerMinute == 60

\* ------------------------------------------------------------------ values
Categories == <<"positive", "neutral", "negative">>
CatSet == {Categories[i] : i \in DOMAIN Categories}
NoCategory == "None"
GameIds == {1, 2}
Strategies == {"oversample", "undersample", "hybrid"}
\* target_ratio in per cent; <<>> is None
Ratios == {<<>>, <<60>>}
MinSamples == {1, 2}

SP == " "
\* comments the loader's reviews carry, and raw texts an augmenter returns
InputComments == {<<SP, "a">>, <<"b">>}
AugTexts == {<<SP>>, <<"a", SP>>, <<"b">>}

\* ----------------------------------------------------------------- helpers
RECURSIVE LStrip(_)
LStrip(t) == IF t # <<>> /\ Head(t) = SP THEN LStrip(Tail(t)) ELSE t

RECURSIVE RStrip(_)
RStrip(t) == IF t # <<>> /\ t[Len(t)] = SP THEN RStrip(SubSeq(t, 1, Len(t) - 1)) ELSE t

\* str.strip()
Strip(t) == RStrip(LStrip(t))

RECURSIVE SumOver(_, _)
SumOver(f, S) == IF S = {} THEN 0
                 ELSE LET x == CHOOSE y \in S : TRUE IN f[x] + SumOver(f, S \ {x})

\* sum(d.values())
SumValues(d) == SumOver(d, DOMAIN d)

MaxOf(S) == CHOOSE x \in S : \A y \in S : y <= x
MinOf(S) == CHOOSE x \in S : \A y \in S : x <= y

\* OfCategory that files the reviews of no configured category under
\* 'negative'
OfCategoryOrNone(seq, c) ==
    SelectSeq(seq, LAMBDA r : r.category = c
                              \/ (c = "negative" /\ r.category \notin {"positive", "neutral"}))

\* [x for x in seq if x.category == c]
OfCategory(seq, c) == SelectSeq(seq, LAMBDA r : r.category = c)

\* sum(1 for r in seq if r.category == c)
CountCat(seq, c) == Len(OfCategory(seq, c))

\* defaultdict(int) += 1 for every review whose category is configured
CountInto(d, seq) ==
    LET keys == DOMAIN d \cup {c \in CatSet : CountCat(seq, c) > 0}
    IN [c \in keys |-> (IF c \in DOMAIN d THEN d[c] ELSE 0) + CountCat(seq, c)]

\* d after d[c] was read for every configured category c: reading a missing
\* key of a defaultdict(int) inserts it with 0
ReadForAll(d) == [c \in DOMAIN d \cup CatSet |-> IF c \in DOMAIN d THEN d[c] ELSE 0]

\* the elements of a list, with multiplicity, as a function element -> count
BagOf(seq) ==
    [x \in {seq[i] : i \in DOMAIN seq} |-> Cardinality({i \in DOMAIN seq : seq[i] = x})]

\* number of reviews of category c in a bag of reviews
BagCountCat(bag, c) ==
    LET S == {x \in DOMAIN bag : x.category = c}
    IN SumOver([x \in S |-> bag[x]], S)

\* the same over a shuffled list
BagCountInto(d, bag) ==
    LET keys == DOMAIN d \cup {c \in CatSet : BagCountCat(bag, c) > 0}
    IN [c \in keys |-> (IF c \in DOMAIN d THEN d[c] ELSE 0) + BagCountCat(bag, c)]

\* random.shuffle(seq): the list in an arbitrary order
Shuffled(seq) == BagOf(seq)

\* Samples drawing with replacement: a position may be taken again
SamplesRepeating(seq, k) == {[i \in 1..k |-> seq[idx[i]]] : idx \in [1..k -> DOMAIN seq]}

\* all results of random.sample(seq, k): the elements at k distinct
\* positions, in any order
Samples(seq, k) ==
    {[i \in 1..k |-> seq[idx[i]]] :
       idx \in {f \in [1..k -> DOMAIN seq] : \A i, j \in 1..k : i # j => f[i] # f[j]}}

\* Review.rating_to_label; a rating is <<r>>, None is <<>>
rating_to_label(rating) ==
    IF rating = <<>> THEN NoCategory
    ELSE IF rating[1] >= 7 THEN "positive"
    ELSE IF rating[1] >= 5 THEN "neutral"
    ELSE "negative"

\* Review.__init__: the object with identity id.  timestamp and game_id are
\* <<n>> or <<>> for None; is_augmented and augmented_from hold what
\* getattr(r, ..., default) reads off an object that lacks them
ReviewInit(id, username, rating, comment, timestamp, game_id) ==
    [id |-> id, username |-> username, rating |-> rating, comment |-> comment,
     timestamp |-> timestamp, game_id |-> game_id,
     label |-> rating_to_label(rating), category |-> rating_to_label(rating),
     is_augmented |-> FALSE, augmented_from |-> 0]

\* a rating that rating_to_label maps to the category
RatingOf(category) ==
    CASE category = "positive" -> <<8>>
      [] category = "neutral" -> <<5>>
      [] category = "negative" -> <<3>>
      [] OTHER -> <<>>

\* Review(...) as the loader builds it: a review of the category
Review(id, category, comment) ==
    ReviewInit(id, "u", RatingOf(category), comment, <<>>, <<>>)

\* helpers.py line 8: the attributes create_augmented_review copies
CopiedAttrs == {"username", "rating", "timestamp", "game_id", "category", "label", "fileid"}

\* create_augmented_review that rewrites the original and hands it back
create_augmented_review_reusing(original_review, augmented_text, new_id) ==
    [comment |-> augmented_text, raw_text |-> augmented_text,
     is_augmented |-> TRUE, augmented_from |-> original_review.id]
    @@ original_review

\* create_augmented_review(original_review, augmented_text); the new object
\* gets the identity new_id.  type(original_review)() is a Review built with
\* no arguments; the attributes of line 8 that the original has are copied
\* onto it, then comment, raw_text and the two markers are set
create_augmented_review(original_review, augmented_text, new_id) ==
    LET aug_review == ReviewInit(new_id, "None", <<>>, <<>>, <<>>, <<>>)
        copied == [attr \in CopiedAttrs \cap DOMAIN original_review |->
                     original_review[attr]]
    IN [comment |-> augmented_text, raw_text |-> augmented_text,
        is_augmented |-> TRUE, augmented_from |-> original_review.id]
       @@ copied @@ aug_review

\* ---------------------------------------------------- target computation
max_count_of(counts) == IF DOMAIN counts = {} THEN 0 ELSE MaxOf({counts[c] : c \in DOMAIN counts})

min_count_of(counts) ==
    LET pos == {counts[c] : c \in DOMAIN counts} \ {0}
    IN IF pos = {} THEN 0 ELSE MinOf(pos)

\* line 68: the guard that skips balancing
SkipGuard(min_count, max_count) == min_count = 0 \/ max_count = 0

\* DeriveRatio with the thresholds included in the upper band
DeriveRatioInclusive(max_count, min_count) ==
    LET d == IF min_count > 1 THEN min_count ELSE 1
    IN IF max_count >= 10 * d THEN 50
       ELSE IF max_count >= 5 * d THEN 60
       ELSE IF max_count >= 2 * d THEN 75
       ELSE 100

\* lines 90-98: ratio = max_count / max(min_count, 1), compared exactly
DeriveRatio(max_count, min_count) ==
    LET d == IF min_count > 1 THEN min_count ELSE 1
    IN IF max_count > 10 * d THEN 50
       ELSE IF max_count > 5 * d THEN 60
       ELSE IF max_count > 2 * d THEN 75
       ELSE 100

\* TargetRatio that derives a ratio even when the caller gave one
TargetRatioAlwaysDerived(strategy, given_ratio, max_count, min_count) ==
    IF strategy \notin {"undersample", "oversample"}
    THEN <<DeriveRatio(max_count, min_count)>>
    ELSE given_ratio

\* lines 84-98: the local target_ratio once the strategy branch has run; only
\* the hybrid branch derives one when the caller gave None
TargetRatio(strategy, given_ratio, max_count, min_count) ==
    IF strategy \notin {"undersample", "oversample"} /\ given_ratio = <<>>
    THEN <<DeriveRatio(max_count, min_count)>>
    ELSE given_ratio

\* BaseTarget with the min_samples_for_balance floor applied to every strategy
BaseTargetFloorAll(strategy, ratio, min_samples, max_count, min_count) ==
    LET t == IF strategy = "undersample" THEN min_count
             ELSE IF strategy = "oversample" THEN max_count
             ELSE (max_count * ratio[1]) \div 100
    IN IF t > min_samples THEN t ELSE min_samples

\* BaseTarget with the targets of undersample and oversample exchanged
BaseTargetExchanged(strategy, ratio, min_samples, max_count, min_count) ==
    IF strategy = "undersample" THEN max_count
    ELSE IF strategy = "oversample" THEN min_count
    ELSE LET t == (max_count * ratio[1]) \div 100
         IN IF t > min_samples THEN t ELSE min_samples

\* round(x) for x = n / 100: to the nearest integer, a tie to the even one
RoundHalfEven(n) ==
    LET q == n \div 100
        r == n % 100
    IN IF r < 50 THEN q
       ELSE IF r > 50 THEN q + 1
       ELSE IF q % 2 = 0 THEN q ELSE q + 1

\* BaseTarget with the hybrid product rounded to the nearest integer
BaseTargetRounded(strategy, ratio, min_samples, max_count, min_count) ==
    IF strategy = "undersample" THEN min_count
    ELSE IF strategy = "oversample" THEN max_count
    ELSE LET t == RoundHalfEven(max_count * ratio[1])
         IN IF t > min_samples THEN t ELSE min_samples

\* lines 84-99; int(max_count * target_ratio) truncates
BaseTarget(strategy, ratio, min_samples, max_count, min_count) ==
    IF strategy = "undersample" THEN min_count
    ELSE IF strategy = "oversample" THEN max_count
    ELSE LET t == (max_count * ratio[1]) \div 100
         IN IF t > min_samples THEN t ELSE min_samples

\* ------------------------------------------------------------------- state
VARIABLES
    pc,                    \* where the run is: "call", "loop", "balance", "cat", "aug",
                           \* "returned", "done"
    config,                \* the arguments of collect_balanced_reviews_multi_game
    verbose,               \* the argument verbose
    n_games,               \* game ids iterated so far
    n_loaded,              \* reviews the loader has returned so far
    next_id,               \* the identity the next new object gets
    gid,                   \* the game id of the current iteration
    cat_counts_before,     \* multi_game_balance.py: per-game defaultdict
    collected_reviews, game_stats, global_counts_before, global_counts_after,
    total_augmented, total_subsampled,
    global_stats,          \* the dict collect_balanced_reviews_multi_game returns
    reviews,               \* balance_single_game's argument
    cat_dict, counts_before,
    target_ratio,          \* the local target_ratio, in per cent; <<>> is None
    base_target,
    balanced_reviews, counts_after, augmented_count, subsampled_count,
    augmentation_used,
    ci,                    \* index into categories of the loop at line 117
    needed, attempts, augmented_reviews,
    aug_calls,             \* augmentation_manager.augment calls made for this category
    aug_raised,            \* the last augment call of this loop raised
    aug_base,              \* base_review of the last iteration of this loop
    shortfall,             \* categories the warning of lines 172-174 was logged for
    ret_reviews, stats     \* what balance_single_game returned

\* AugmentationManager (augmentation.py)
VARIABLES
    to_init,               \* supported_langs _init_augmenters has yet to iterate
    augmenters,            \* self.augmenters: the languages that have an augmenter
    text, lang, num_augmentations,   \* the arguments of augment
    augmenter,             \* the language whose augmenter augment uses, or "None"
    aug_iter,              \* iterations of the loop at line 43 done so far
    augmented_texts, cleaned

\* save_balance_report (save_balance.py)
VARIABLES
    clock,                 \* datetime.now(), in seconds
    dir_exists,            \* base_dir exists
    files,                 \* the reports in base_dir: timestamp -> stats written
    saved_at,              \* the clock at each call of save_balance_report so far
    report_path            \* what the last call returned: <<timestamp>>

\* successive invocations of collect_balanced_reviews_multi_game
VARIABLES
    n_runs,                \* invocations so far, the running one included
    run_first_id           \* the identity of the first object of this invocation

run_vars == <<n_runs, run_first_id>>

mgr_vars == <<to_init, augmenters, text, lang, num_augmentations, augmenter, aug_iter,
              augmented_texts, cleaned>>
report_vars == <<clock, dir_exists, files, saved_at, report_path>>

\* the same without lang, the argument balance_single_game passes to augment
mgr_but_lang == <<to_init, augmenters, text, num_augmentations, augmenter, aug_iter,
                  augmented_texts, cleaned>>
multi_but_lang == <<config, verbose, mgr_but_lang, report_vars, run_vars, n_games,
                    n_loaded, gid, cat_counts_before, collected_reviews, game_stats,
                    global_counts_before, global_counts_after, total_augmented,
                    total_subsampled, global_stats>>

\* the locals of collect_balanced_reviews_multi_game, among them its
\* augmentation_manager, and the report directory of its caller
multi_vars == <<config, verbose, mgr_vars, report_vars, run_vars, n_games, n_loaded, gid, cat_counts_before, collected_reviews,
                game_stats, global_counts_before, global_counts_after,
                total_augmented, total_subsampled, global_stats>>
call_vars == <<reviews, cat_dict, counts_before, target_ratio, base_target,
               balanced_reviews, counts_after, augmented_count, subsampled_count,
               augmentation_used, ci, needed, attempts, augmented_reviews, aug_calls, aug_raised, aug_base,
               shortfall>>
ret_vars == <<ret_reviews, stats>>
vars == <<pc, next_id, multi_vars, call_vars, ret_vars>>

EmptyDict == <<>>
\* base_review before random.choice has picked one
NoReview == [id |-> 0]

\* the values the locals of balance_single_game have while no call is active
CallIdle ==
    /\ reviews' = <<>> /\ cat_dict' = EmptyDict /\ counts_before' = EmptyDict
    /\ base_target' = 0 /\ balanced_reviews' = <<>> /\ counts_after' = EmptyDict
    /\ augmented_count' = 0 /\ subsampled_count' = 0 /\ augmentation_used' = FALSE
    /\ ci' = 0 /\ needed' = 0 /\ attempts' = 0 /\ augmented_reviews' = <<>>
    /\ aug_calls' = 0 /\ aug_raised' = FALSE /\ target_ratio' = <<>> /\ shortfall' = {}
    /\ aug_base' = NoReview

\* the (category, comment) pairs of the reviews a loader returns
ReviewKinds ==
    <<<<"positive", <<SP, "a">>>>, <<"neutral", <<"b">>>>, <<"negative", <<SP, "a">>>>,
      <<"negative", <<"b">>>>, <<NoCategory, <<"b">>>>>>

\* the non-empty lists merge_reviews_func can return, at most k reviews long;
\* the reviews of a list are enumerated in the order of ReviewKinds
ReviewLists(k) ==
    UNION {{[i \in 1..n |-> ReviewKinds[f[i]]] :
              f \in {g \in [1..n -> DOMAIN ReviewKinds] :
                       \A i, j \in 1..n : i < j => g[i] <= g[j]}} : n \in 1..k}

\* the state before anything ran
Start ==
    /\ config \in [balance_strategy : Strategies, target_ratio : Ratios,
                   min_samples_for_balance : MinSamples, use_augmentation : BOOLEAN]
    /\ n_games = 0 /\ n_loaded = 0 /\ next_id = 1 /\ gid = 0
    /\ cat_counts_before = EmptyDict
    /\ collected_reviews = EmptyBag /\ game_stats = EmptyDict
    /\ global_counts_before = EmptyDict /\ global_counts_after = EmptyDict
    /\ total_augmented = 0 /\ total_subsampled = 0
    /\ global_stats = EmptyDict
    /\ reviews = <<>> /\ cat_dict = EmptyDict /\ counts_before = EmptyDict
    /\ base_target = 0 /\ balanced_reviews = <<>> /\ counts_after = EmptyDict
    /\ augmented_count = 0 /\ subsampled_count = 0 /\ augmentation_used = FALSE
    /\ ci = 0 /\ needed = 0 /\ attempts = 0 /\ augmented_reviews = <<>>
    /\ aug_calls = 0 /\ aug_raised = FALSE /\ target_ratio = <<>> /\ shortfall = {}
    /\ aug_base = NoReview
    /\ ret_reviews = EmptyBag /\ stats = EmptyDict

\* no AugmentationManager has been constructed
MgrIdle ==
    /\ to_init = {} /\ augmenters = {}
    /\ text = <<>> /\ lang = "en" /\ num_augmentations = 0 /\ augmenter = "None"
    /\ aug_iter = 0 /\ augmented_texts = <<>> /\ cleaned = <<>>

\* the first invocation
RunIdle == n_runs = 1 /\ run_first_id = 1

\* no report has been saved
ReportIdle ==
    /\ clock = 0 /\ dir_exists = FALSE /\ files = EmptyDict /\ saved_at = <<>>
    /\ report_path = <<>>

\* a caller is about to call balance_single_game; its verbose only prints
Init == pc = "call" /\ verbose = FALSE /\ Start /\ MgrIdle /\ ReportIdle /\ RunIdle

\* a caller has called collect_balanced_reviews_multi_game
MultiInit == pc = "loop" /\ verbose \in BOOLEAN /\ Start /\ MgrIdle /\ ReportIdle /\ RunIdle

\* balance_single_game(reviews, ...) is called with any list of reviews,
\* the empty one included
Call ==
    /\ pc = "call"
    /\ \E kinds \in ReviewLists(MaxReviews) \cup {<<>>} :
         /\ reviews' = [i \in DOMAIN kinds |->
                          Review(next_id + i - 1, kinds[i][1], kinds[i][2])]
         /\ next_id' = next_id + Len(kinds)
    /\ pc' = "balance"
    /\ UNCHANGED <<multi_vars, cat_dict, counts_before, target_ratio, base_target,
                   balanced_reviews, counts_after, augmented_count, subsampled_count,
                   augmentation_used, ci, needed, attempts, augmented_reviews,
                   aug_calls, aug_raised, aug_base, shortfall, ret_vars>>

\* ------------------------------------------- collect_balanced_reviews_multi_game
\* SkipEmptyGame that records an entry of zeros for the game it skips
SkipEmptyGameRecorded ==
    /\ pc = "loop" /\ n_games < MaxGames
    /\ \E g \in GameIds :
         /\ n_games' = n_games + 1
         /\ game_stats' = (g :> [total_before |-> 0, total_after |-> 0]) @@ game_stats
    /\ UNCHANGED <<pc, next_id, config, verbose, mgr_vars, report_vars, run_vars, n_loaded, gid, cat_counts_before,
                   collected_reviews, global_counts_before,
                   global_counts_after, total_augmented, total_subsampled,
                   global_stats, call_vars, ret_vars>>

\* lines 31-34: the loader yields nothing (None or []) and the game is skipped
SkipEmptyGame ==
    /\ pc = "loop" /\ n_games < MaxGames
    /\ \E g \in GameIds : n_games' = n_games + 1
    /\ UNCHANGED <<pc, next_id, config, verbose, mgr_vars, report_vars, run_vars, n_loaded, gid, cat_counts_before,
                   collected_reviews, game_stats, global_counts_before,
                   global_counts_after, total_augmented, total_subsampled,
                   global_stats, call_vars, ret_vars>>

\* lines 31-47: the loader yields reviews; they are counted (the print of
\* line 45 reads every configured key) and handed to balance_single_game
LoadGame ==
    /\ pc = "loop" /\ n_games < MaxGames
    /\ \E g \in GameIds, kinds \in ReviewLists(MaxLoaded - n_loaded) :
         LET reviews_raw == [i \in DOMAIN kinds |->
                               Review(next_id + i - 1, kinds[i][1], kinds[i][2])]
         IN /\ gid' = g
            /\ n_loaded' = n_loaded + Len(reviews_raw)
            /\ next_id' = next_id + Len(reviews_raw)
            /\ cat_counts_before' =
                 IF verbose THEN ReadForAll(CountInto(EmptyDict, reviews_raw))
                 ELSE CountInto(EmptyDict, reviews_raw)
            /\ global_counts_before' = CountInto(global_counts_before, reviews_raw)
            /\ reviews' = reviews_raw
    /\ n_games' = n_games + 1
    /\ pc' = "balance"
    /\ UNCHANGED <<config, verbose, mgr_vars, report_vars, run_vars, collected_reviews, game_stats, global_counts_after,
                   total_augmented, total_subsampled, global_stats,
                   cat_dict, counts_before, target_ratio, base_target,
                   balanced_reviews, counts_after, augmented_count, subsampled_count,
                   augmentation_used, ci, needed, attempts, augmented_reviews,
                   aug_calls, aug_raised, aug_base, shortfall, ret_vars>>

\* ----------------------------------------------------------- balance_single_game
\* what one augmentation_manager.augment call can do: raise, or return a
\* list of texts, or a single str
AugOutcomes ==
    {[kind |-> "raise", items |-> <<>>]}
    \cup {[kind |-> "list", items |-> l] :
            l \in UNION {[1..n -> AugTexts] : n \in 0..MaxAugPerReview}}
    \cup {[kind |-> "str", items |-> <<t>>] : t \in AugTexts \cup {<<>>}}

\* LoopCond with the attempt budget off by one
LoopCondOneMore(n_augmented, need, att) ==
    n_augmented < need /\ att <= need * AttemptFactor

\* line 139: the while condition
LoopCond(n_augmented, need, att) ==
    n_augmented < need /\ att < need * AttemptFactor

\* Rejected comparing with the source's comment as it is, not trimmed
RejectedUntrimmed(aug_str, base_review) ==
    aug_str = <<>> \/ aug_str = base_review.comment

\* line 161: a stripped variant that is not accepted
Rejected(aug_str, base_review) ==
    aug_str = <<>> \/ aug_str = Strip(base_review.comment)

\* lines 155-166: the for loop over the returned texts
RECURSIVE AcceptVariants(_, _, _, _, _)
AcceptVariants(acc, base_review, items, need, new_id) ==
    IF items = <<>> \/ Len(acc) >= need THEN acc
    ELSE LET aug_str == Strip(Head(items))
         IN IF Rejected(aug_str, base_review)
            THEN AcceptVariants(acc, base_review, Tail(items), need, new_id)
            ELSE AcceptVariants(
                   Append(acc, create_augmented_review(base_review, aug_str, new_id)),
                   base_review, Tail(items), need, new_id + 1)

\* WithAugmented that keeps the variants and loses the originals
WithAugmentedOnly(cat_reviews, augmented, need) ==
    SubSeq(augmented, 1, IF Len(augmented) < need THEN Len(augmented) ELSE need)

\* line 176: cat_reviews + augmented_reviews[:needed]
WithAugmented(cat_reviews, augmented, need) ==
    cat_reviews \o SubSeq(augmented, 1, IF Len(augmented) < need THEN Len(augmented)
                                         ELSE need)

\* CountAfter reporting the requested size, not the achieved one
CountAfterRequested(cat_reviews, target_count) ==
    IF Len(cat_reviews) < target_count THEN target_count ELSE Len(cat_reviews)

\* lines 177 and 197: counts_after[cat] = len(cat_reviews)
CountAfter(cat_reviews, target_count) == Len(cat_reviews)

\* line 188: the condition of case B
SubsampleCond(current, target_count, strategy) ==
    current > target_count /\ strategy \in {"undersample", "hybrid"}

\* lines 72-79: the stats of a skipped call
SkipStats(before) ==
    [before |-> before, after |-> before, strategy |-> "none", balanced |-> FALSE,
     augmented_count |-> 0, subsampled_count |-> 0]

\* lines 55-79: group by category, count, and skip when the guard says so
BalanceSkip ==
    /\ pc = "balance"
    /\ LET cd == [c \in CatSet |-> OfCategory(reviews, c)]
           cb == [c \in CatSet |-> Len(cd[c])]
       IN /\ SkipGuard(min_count_of(cb), max_count_of(cb))
          /\ ret_reviews' = BagOf(reviews)
          /\ stats' = SkipStats(cb)
          /\ cat_dict' = cd /\ counts_before' = cb
    /\ pc' = "returned"
    /\ UNCHANGED <<next_id, multi_vars, reviews, target_ratio, base_target,
                   balanced_reviews, counts_after, augmented_count, subsampled_count,
                   augmentation_used, ci, needed, attempts, augmented_reviews,
                   aug_calls, aug_raised, aug_base, shortfall>>

\* lines 55-115: group by category, count, pass the guard, fix the target
BalanceStart ==
    /\ pc = "balance"
    /\ LET cd == [c \in CatSet |-> OfCategory(reviews, c)]
           cb == [c \in CatSet |-> Len(cd[c])]
       IN /\ ~SkipGuard(min_count_of(cb), max_count_of(cb))
          /\ cat_dict' = cd /\ counts_before' = cb
          /\ target_ratio' = TargetRatio(config.balance_strategy, config.target_ratio,
                                         max_count_of(cb), min_count_of(cb))
          /\ base_target' = BaseTarget(config.balance_strategy, target_ratio',
                                       config.min_samples_for_balance,
                                       max_count_of(cb), min_count_of(cb))
    /\ balanced_reviews' = <<>> /\ counts_after' = EmptyDict
    /\ augmented_count' = 0 /\ subsampled_count' = 0 /\ augmentation_used' = FALSE
    /\ ci' = 1
    /\ pc' = "cat"
    /\ UNCHANGED <<next_id, multi_vars, reviews, needed, attempts, augmented_reviews,
                   aug_calls, aug_raised, aug_base, shortfall, ret_vars>>

cat == Categories[ci]
current == Len(cat_dict[cat])

\* TargetCount with the target of 'neutral' doubled
TargetCountNeutralDoubled(c) == IF c = "neutral" THEN 2 * base_target ELSE base_target

\* lines 104-106: target_counts[cat] = base_target for every category
TargetCount(c) == base_target

\* line 120
target_count == TargetCount(cat)

\* Removed counting the reviews that are kept
RemovedKept(cur, target) == target

\* line 189: removed = current - target_count
Removed(cur, target) == cur - target
InCatLoop == pc = "cat" /\ ci \in DOMAIN Categories

\* CatEmpty that sends the empty category into the augmentation loop
CatEmptyEntersLoop ==
    /\ InCatLoop /\ current = 0
    /\ needed' = target_count
    /\ attempts' = 0 /\ augmented_reviews' = <<>> /\ aug_calls' = 0
    /\ pc' = "aug"
    /\ UNCHANGED <<next_id, multi_vars, reviews, cat_dict, counts_before,
                   target_ratio, base_target, balanced_reviews, counts_after,
                   augmented_count, subsampled_count, augmentation_used, ci,
                   aug_raised, aug_base, shortfall, ret_vars>>

\* lines 122-124: an empty category is passed over
CatEmpty ==
    /\ InCatLoop /\ current = 0
    /\ counts_after' = (cat :> 0) @@ counts_after
    /\ ci' = ci + 1
    /\ UNCHANGED <<pc, next_id, multi_vars, reviews, cat_dict, counts_before,
                   target_ratio, base_target, balanced_reviews, augmented_count,
                   subsampled_count, augmentation_used, needed, attempts,
                   augmented_reviews, aug_calls, aug_raised, aug_base, shortfall, ret_vars>>

\* line 130: getattr(review, 'language', 'en') or 'en'; None is "None"
LanguageOr(review) ==
    IF "language" \in DOMAIN review /\ review.language \notin {"None", ""}
    THEN review.language ELSE "en"

\* lines 127-137: case A with an augmentation manager: lang is taken from
\* the first review of the category and the while loop starts
AugmentBegin ==
    /\ InCatLoop /\ current # 0 /\ current < target_count
    /\ config.use_augmentation
    /\ needed' = target_count - current
    /\ attempts' = 0 /\ augmented_reviews' = <<>> /\ aug_calls' = 0
    /\ aug_raised' = FALSE /\ aug_base' = NoReview
    /\ lang' = LanguageOr(cat_dict[cat][1])
    /\ pc' = "aug"
    /\ UNCHANGED <<next_id, multi_but_lang, reviews, cat_dict, counts_before,
                   target_ratio, base_target, balanced_reviews, counts_after,
                   augmented_count, subsampled_count, augmentation_used, ci,
                   shortfall, ret_vars>>

\* AfterAugmentError when the exception is not caught and leaves the call
AugmentErrorEscapes == "raised"

\* lines 148-150: except Exception: log, continue; the while loop goes on
AfterAugmentError == "aug"

\* lines 139-170: one iteration of the while loop
AugAttempt ==
    /\ pc = "aug"
    /\ LoopCond(Len(augmented_reviews), needed, attempts)
    /\ attempts' = attempts + 1
    /\ aug_calls' = aug_calls + 1
    /\ \E b \in 1..current, out \in AugOutcomes :
         LET base_review == cat_dict[cat][b]
             got == IF out.kind = "raise" THEN augmented_reviews
                    ELSE AcceptVariants(augmented_reviews, base_review, out.items,
                                        needed, next_id)
         IN /\ augmented_reviews' = got
            /\ augmented_count' = augmented_count + (Len(got) - Len(augmented_reviews))
            /\ next_id' = next_id + (Len(got) - Len(augmented_reviews))
            /\ aug_raised' = (out.kind = "raise")
            /\ aug_base' = base_review
            /\ pc' = IF out.kind = "raise" THEN AfterAugmentError ELSE pc
    /\ UNCHANGED <<multi_vars, reviews, cat_dict, counts_before, target_ratio,
                   base_target, balanced_reviews, counts_after, subsampled_count,
                   augmentation_used, ci, needed, shortfall, ret_vars>>

\* lines 172-181 and 196-197: the while loop is over
AugmentEnd ==
    /\ pc = "aug"
    /\ ~LoopCond(Len(augmented_reviews), needed, attempts)
    /\ shortfall' = IF Len(augmented_reviews) < needed THEN shortfall \cup {cat}
                    ELSE shortfall
    /\ LET cat_reviews == WithAugmented(cat_dict[cat], augmented_reviews, needed)
       IN /\ balanced_reviews' = balanced_reviews \o cat_reviews
          /\ counts_after' = (cat :> CountAfter(cat_reviews, target_count)) @@ counts_after
    /\ augmentation_used' = TRUE
    /\ ci' = ci + 1
    /\ pc' = "cat"
    /\ needed' = 0 /\ attempts' = 0 /\ augmented_reviews' = <<>> /\ aug_calls' = 0
    /\ aug_raised' = FALSE /\ aug_base' = NoReview
    /\ UNCHANGED <<next_id, multi_vars, reviews, cat_dict, counts_before,
                   target_ratio, base_target, augmented_count, subsampled_count,
                   ret_vars>>

\* NoAugmenter that leaves the category out of the output
NoAugmenterDropsCategory ==
    /\ InCatLoop /\ current # 0 /\ current < target_count
    /\ ~config.use_augmentation
    /\ counts_after' = (cat :> 0) @@ counts_after
    /\ ci' = ci + 1
    /\ UNCHANGED <<pc, next_id, multi_vars, reviews, cat_dict, counts_before,
                   target_ratio, base_target, balanced_reviews, augmented_count,
                   subsampled_count, augmentation_used, needed, attempts,
                   augmented_reviews, aug_calls, aug_raised, aug_base, shortfall, ret_vars>>

\* lines 183-185 and 196-197: case A without an augmentation manager
NoAugmenter ==
    /\ InCatLoop /\ current # 0 /\ current < target_count
    /\ ~config.use_augmentation
    /\ balanced_reviews' = balanced_reviews \o cat_dict[cat]
    /\ counts_after' = (cat :> CountAfter(cat_dict[cat], target_count)) @@ counts_after
    /\ ci' = ci + 1
    /\ UNCHANGED <<pc, next_id, multi_vars, reviews, cat_dict, counts_before,
                   target_ratio, base_target, augmented_count, subsampled_count,
                   augmentation_used, needed, attempts, augmented_reviews, aug_calls, aug_raised, aug_base,
                   shortfall, ret_vars>>

\* lines 188-197: case B, random.sample keeps target_count reviews
Subsample ==
    /\ InCatLoop /\ current # 0 /\ ~(current < target_count)
    /\ SubsampleCond(current, target_count, config.balance_strategy)
    /\ \E cat_reviews \in Samples(cat_dict[cat], target_count) :
         /\ balanced_reviews' = balanced_reviews \o cat_reviews
         /\ counts_after' = (cat :> CountAfter(cat_reviews, target_count)) @@ counts_after
    /\ subsampled_count' = subsampled_count + Removed(current, target_count)
    /\ ci' = ci + 1
    /\ UNCHANGED <<pc, next_id, multi_vars, reviews, cat_dict, counts_before,
                   target_ratio, base_target, augmented_count, augmentation_used,
                   needed, attempts, augmented_reviews, aug_calls, aug_raised, aug_base, shortfall,
                   ret_vars>>

\* lines 196-197 alone: neither case A nor case B
PassThrough ==
    /\ InCatLoop /\ current # 0 /\ ~(current < target_count)
    /\ ~SubsampleCond(current, target_count, config.balance_strategy)
    /\ balanced_reviews' = balanced_reviews \o cat_dict[cat]
    /\ counts_after' = (cat :> CountAfter(cat_dict[cat], target_count)) @@ counts_after
    /\ ci' = ci + 1
    /\ UNCHANGED <<pc, next_id, multi_vars, reviews, cat_dict, counts_before,
                   target_ratio, base_target, augmented_count, subsampled_count,
                   augmentation_used, needed, attempts, augmented_reviews, aug_calls, aug_raised, aug_base,
                   shortfall, ret_vars>>

\* lines 204-212: the stats of a balanced call
BalancedStats ==
    [before |-> counts_before, after |-> counts_after,
     strategy |-> config.balance_strategy, balanced |-> TRUE,
     augmented_count |-> augmented_count, subsampled_count |-> subsampled_count,
     augmentation_used |-> augmentation_used]

\* lines 202-220: shuffle and return
BalanceReturn ==
    /\ pc = "cat" /\ ci > Len(Categories)
    /\ ret_reviews' = Shuffled(balanced_reviews)
    /\ stats' = BalancedStats
    /\ pc' = "returned"
    /\ UNCHANGED <<next_id, multi_vars, call_vars>>

\* AugmentedIn counting every review, flagged or not
AugmentedInAll(bag) == BagCardinality(bag)

\* line 58: sum(1 for r in balanced_reviews if getattr(r, 'is_augmented', False))
AugmentedIn(bag) ==
    LET S == {x \in DOMAIN bag : x.is_augmented}
    IN SumOver([x \in S |-> bag[x]], S)

\* ------------------------------- collect_balanced_reviews_multi_game, continued
\* lines 58-76: the game's result is added to the global counters
Aggregate ==
    /\ pc = "returned"
    /\ LET augmented_in_game == AugmentedIn(ret_reviews)
           entry ==
             [counts_before |-> cat_counts_before,
              counts_after |-> [c \in CatSet |-> BagCountCat(ret_reviews, c)],
              total_before |-> SumValues(cat_counts_before),
              total_after |-> BagCardinality(ret_reviews),
              augmented_count |-> augmented_in_game,
              subsampled_count |-> stats.subsampled_count,
              balance_stats |-> stats]
       IN /\ global_counts_after' = BagCountInto(global_counts_after, ret_reviews)
          /\ game_stats' = (gid :> entry) @@ game_stats
          /\ total_augmented' = total_augmented + augmented_in_game
          /\ total_subsampled' = total_subsampled + stats.subsampled_count
          /\ collected_reviews' = collected_reviews (+) ret_reviews
    /\ pc' = "loop"
    /\ gid' = 0 /\ cat_counts_before' = EmptyDict
    /\ CallIdle
    /\ ret_reviews' = EmptyBag /\ stats' = EmptyDict
    /\ UNCHANGED <<next_id, config, verbose, mgr_vars, report_vars, run_vars, n_games, n_loaded,
                   global_counts_before, global_stats>>

\* line 80: max(values) / max(min(values), 1), as numerator and denominator
BalanceRatio(counts) ==
    IF DOMAIN counts = {} THEN <<0, 1>>
    ELSE LET vals == {counts[c] : c \in DOMAIN counts}
             lo == MinOf(vals)
         IN <<MaxOf(vals), IF lo > 1 THEN lo ELSE 1>>

\* lines 78-103: the game list is exhausted; totals, the prints of lines
\* 86-87 that read every configured key, and the returned dict
Finalize ==
    /\ pc = "loop"
    /\ global_stats' =
         [counts_before |-> IF verbose THEN ReadForAll(global_counts_before)
                            ELSE global_counts_before,
          counts_after |-> IF verbose THEN ReadForAll(global_counts_after)
                           ELSE global_counts_after,
          total_before |-> SumValues(global_counts_before),
          total_after |-> BagCardinality(collected_reviews),
          total_augmented |-> total_augmented,
          total_subsampled |-> total_subsampled,
          balance_ratio_max_min |-> BalanceRatio(global_counts_after),
          balance_strategy |-> config.balance_strategy,
          game_stats |-> game_stats]
    /\ pc' = "done"
    /\ UNCHANGED <<next_id, config, verbose, mgr_vars, report_vars, run_vars, n_games, n_loaded, gid,
                   cat_counts_before, collected_reviews, game_stats,
                   global_counts_before, global_counts_after, total_augmented,
                   total_subsampled, call_vars, ret_vars>>

\* the steps of balance_single_game
Balance ==
    \/ BalanceSkip \/ BalanceStart
    \/ CatEmpty \/ AugmentBegin \/ AugAttempt \/ AugmentEnd \/ NoAugmenter
    \/ Subsample \/ PassThrough \/ BalanceReturn

\* one call of balance_single_game
Next == Call \/ Balance

Spec == Init /\ [][Next]_vars

\* one run of collect_balanced_reviews_multi_game
MultiNext == SkipEmptyGame \/ LoadGame \/ Balance \/ Aggregate \/ Finalize

MultiSpec == MultiInit /\ [][MultiNext]_vars

\* ------------------------------------------ one invocation after another
\* NewCounts that hands out the dict of the invocation before
NewCountsShared(previous) == previous

\* lines 26-27: defaultdict(int), created inside the invocation
NewCounts(previous) == EmptyDict

\* lines 8-29: collect_balanced_reviews_multi_game is invoked again, with the
\* same arguments, after an invocation that has returned
CollectAgain ==
    /\ pc = "done" /\ n_runs < MaxRuns
    /\ n_runs' = n_runs + 1 /\ run_first_id' = next_id
    /\ collected_reviews' = EmptyBag /\ game_stats' = EmptyDict
    /\ global_counts_before' = NewCounts(global_counts_before)
    /\ global_counts_after' = NewCounts(global_counts_after)
    /\ total_augmented' = 0 /\ total_subsampled' = 0
    /\ n_games' = 0 /\ n_loaded' = 0 /\ global_stats' = EmptyDict
    /\ pc' = "loop"
    /\ UNCHANGED <<next_id, config, verbose, mgr_vars, report_vars, gid,
                   cat_counts_before, call_vars, ret_vars>>

RepeatNext == MultiNext \/ CollectAgain

\* the first invocation, with the defaults of lines 14 and 18 for
\* target_ratio and verbose
RepeatInit == MultiInit /\ verbose /\ config.target_ratio = <<60>>

RepeatSpec == RepeatInit /\ [][RepeatNext]_vars

\* ------------------------------------------------ the end-to-end examples
\* The examples run balance_single_game on category sizes of up to 50 with
\* a mocked augmenter that yields fresh variants on every call.  Their
\* reviews are told apart by category only: all carry identity 0 and the
\* same comment, so every random.sample of k reviews of a category is the
\* same list.
ExampleSizes == {0, 5, 40, 50}
ExampleConfigs ==
    [balance_strategy : Strategies, target_ratio : {<<>>},
     min_samples_for_balance : {10}, use_augmentation : BOOLEAN]

ExampleInit ==
    /\ pc = "call" /\ verbose = FALSE
    /\ Start /\ MgrIdle /\ ReportIdle /\ RunIdle

\* balance_single_game is called with sizes[c] reviews of each category c
ExampleCall ==
    /\ pc = "call"
    /\ config' \in ExampleConfigs
    /\ \E sizes \in [DOMAIN Categories -> ExampleSizes] :
         LET part(i) == [k \in 1..sizes[i] |-> Review(0, Categories[i], <<"b">>)]
         IN reviews' = part(1) \o part(2) \o part(3)
    /\ pc' = "balance"
    /\ UNCHANGED <<next_id, verbose, mgr_vars, report_vars, run_vars, n_games, n_loaded, gid, cat_counts_before,
                   collected_reviews, game_stats, global_counts_before,
                   global_counts_after, total_augmented, total_subsampled,
                   global_stats, cat_dict, counts_before, target_ratio, base_target,
                   balanced_reviews, counts_after, augmented_count, subsampled_count,
                   augmentation_used, ci, needed, attempts, augmented_reviews,
                   aug_calls, aug_raised, aug_base, shortfall, ret_vars>>

\* line 142: the number of variants asked of one call
PerReviewTry(need, cur) ==
    LET q == 1 + need \div (IF cur > 1 THEN cur ELSE 1)
    IN IF MaxAugPerReview < q THEN MaxAugPerReview ELSE q

\* lines 139-170 with the mocked augmenter: it returns between one and the
\* asked number of variants, all of them new texts
ExampleAugAttempt ==
    /\ pc = "aug"
    /\ LoopCond(Len(augmented_reviews), needed, attempts)
    /\ attempts' = attempts + 1
    /\ aug_calls' = aug_calls + 1
    /\ \E n \in 1..PerReviewTry(needed, current) :
         LET base_review == cat_dict[cat][1]
             acc == AcceptVariants(augmented_reviews, base_review,
                                   [i \in 1..n |-> <<"a">>], needed, 0)
             got == [i \in DOMAIN acc |-> [acc[i] EXCEPT !.id = 0]]
         IN /\ augmented_reviews' = got
            /\ augmented_count' = augmented_count + (Len(got) - Len(augmented_reviews))
            /\ aug_base' = base_review
    /\ aug_raised' = FALSE
    /\ UNCHANGED <<pc, next_id, multi_vars, reviews, cat_dict, counts_before,
                   target_ratio, base_target, balanced_reviews, counts_after,
                   subsampled_count, augmentation_used, ci, needed, shortfall,
                   ret_vars>>

\* lines 188-197 on reviews told apart by category only
ExampleSubsample ==
    /\ InCatLoop /\ current # 0 /\ ~(current < target_count)
    /\ SubsampleCond(current, target_count, config.balance_strategy)
    /\ LET cat_reviews == SubSeq(cat_dict[cat], 1, target_count)
       IN /\ balanced_reviews' = balanced_reviews \o cat_reviews
          /\ counts_after' = (cat :> CountAfter(cat_reviews, target_count)) @@ counts_after
    /\ subsampled_count' = subsampled_count + Removed(current, target_count)
    /\ ci' = ci + 1
    /\ UNCHANGED <<pc, next_id, multi_vars, reviews, cat_dict, counts_before,
                   target_ratio, base_target, augmented_count, augmentation_used,
                   needed, attempts, augmented_reviews, aug_calls, aug_raised, aug_base, shortfall,
                   ret_vars>>

ExampleNext ==
    \/ ExampleCall \/ BalanceSkip \/ BalanceStart \/ CatEmpty \/ AugmentBegin
    \/ ExampleAugAttempt \/ AugmentEnd \/ NoAugmenter \/ ExampleSubsample
    \/ PassThrough \/ BalanceReturn

ExampleSpec == ExampleInit /\ [][ExampleNext]_vars

\* ------------------------------------------------- the target computation
\* balance_single_game is followed up to its target (lines 55-115) on
\* category sizes of up to MaxCount, with every ratio the code can derive
\* given explicitly as well
TargetConfigs ==
    [balance_strategy : Strategies,
     target_ratio : {<<>>, <<50>>, <<60>>, <<75>>, <<100>>},
     min_samples_for_balance : {1, 4}, use_augmentation : {TRUE}]

TargetInit ==
    /\ ExampleInit
    /\ config.balance_strategy = "hybrid" /\ config.target_ratio = <<>>
    /\ config.min_samples_for_balance = 1 /\ config.use_augmentation

\* balance_single_game is called with sizes[c] reviews of each category c
TargetCall ==
    /\ pc = "call"
    /\ config' \in TargetConfigs
    /\ \E sizes \in [DOMAIN Categories -> 0..MaxCount] :
         LET part(i) == [k \in 1..sizes[i] |-> Review(0, Categories[i], <<"b">>)]
         IN reviews' = part(1) \o part(2) \o part(3)
    /\ pc' = "balance"
    /\ UNCHANGED <<next_id, verbose, mgr_vars, report_vars, run_vars, n_games,
                   n_loaded, gid, cat_counts_before,
                   collected_reviews, game_stats, global_counts_before,
                   global_counts_after, total_augmented, total_subsampled,
                   global_stats, cat_dict, counts_before, target_ratio, base_target,
                   balanced_reviews, counts_after, augmented_count, subsampled_count,
                   augmentation_used, ci, needed, attempts, augmented_reviews,
                   aug_calls, aug_raised, aug_base, shortfall, ret_vars>>

TargetNext == TargetCall \/ BalanceSkip \/ BalanceStart

TargetSpec == TargetInit /\ [][TargetNext]_vars

\* ------------------------------------------------ calls of either kind
\* balance_single_game on the lists of Call, whose reviews have identities
\* and whose augmenter does as it likes, and on the lists of the examples
IsExampleCall == reviews # <<>> /\ reviews[1].id = 0

AnyAugAttempt == ~IsExampleCall /\ AugAttempt
MockedAugAttempt == IsExampleCall /\ ExampleAugAttempt
AnySubsample == ~IsExampleCall /\ Subsample
PrefixSubsample == IsExampleCall /\ ExampleSubsample

EitherNext ==
    \/ Call \/ ExampleCall \/ BalanceSkip \/ BalanceStart \/ CatEmpty
    \/ AugmentBegin \/ AnyAugAttempt \/ MockedAugAttempt \/ AugmentEnd
    \/ NoAugmenter \/ AnySubsample \/ PrefixSubsample \/ PassThrough
    \/ BalanceReturn

EitherSpec == Init /\ [][EitherNext]_vars

\* ------------------------------------------------ reviews with a language
\* balance_single_game on reviews that differ in every attribute and that a
\* collaborator has tagged with a language: the attribute is missing, None,
\* or a tag.  With strategy hybrid and min_samples_for_balance 3 every
\* category of such a list is below the target.
Languages == {"absent", "None", "en", "es"}
TaggedRatings == {<<8>>, <<3>>, <<>>}
Usernames == <<"u", "v", "w">>
LangConfig ==
    [balance_strategy |-> "hybrid", target_ratio |-> <<>>,
     min_samples_for_balance |-> 3, use_augmentation |-> TRUE]

\* the review with the attribute language set, or left without it
Tagged(review, language) ==
    IF language = "absent" THEN review ELSE [language |-> language] @@ review

LangInit ==
    /\ ExampleInit
    /\ config.balance_strategy = "hybrid" /\ config.target_ratio = <<>>
    /\ config.min_samples_for_balance = 1 /\ config.use_augmentation

\* balance_single_game is called with a list of tagged reviews
LangCall ==
    /\ pc = "call"
    /\ config' = LangConfig
    /\ \E n \in 1..MaxTagged :
         \E rs \in [1..n -> TaggedRatings], ls \in [1..n -> Languages] :
           /\ reviews' = [i \in 1..n |->
                            Tagged(ReviewInit(next_id + i - 1, Usernames[i], rs[i],
                                              <<"b">>, <<i>>, <<1>>), ls[i])]
           /\ next_id' = next_id + n
    /\ pc' = "balance"
    /\ UNCHANGED <<verbose, mgr_vars, report_vars, run_vars, n_games,
                   n_loaded, gid, cat_counts_before,
                   collected_reviews, game_stats, global_counts_before,
                   global_counts_after, total_augmented, total_subsampled,
                   global_stats, cat_dict, counts_before, target_ratio, base_target,
                   balanced_reviews, counts_after, augmented_count, subsampled_count,
                   augmentation_used, ci, needed, attempts, augmented_reviews,
                   aug_calls, aug_raised, aug_base, shortfall, ret_vars>>

LangNext ==
    \/ LangCall \/ BalanceSkip \/ BalanceStart \/ CatEmpty \/ AugmentBegin
    \/ AugAttempt \/ AugmentEnd \/ BalanceReturn

LangSpec == LangInit /\ [][LangNext]_vars

\* ------------------------------------------------------ AugmentationManager
\* the languages the manager supports (a part of the default set of line 9)
\* and the languages augment is asked for, one of them unsupported
SupportedLangs == {"en", "es"}
RequestLangs == SupportedLangs \cup {"xx"}

T5 == <<"a", "a", "a", "a", "a">>
\* texts augment is given: empty, four characters once trimmed, five
\* characters once trimmed
MgrTexts == {<<>>, <<"a", "a", "a", "a", SP, SP>>, <<SP>> \o T5}

\* what a backend hands back in a list or alone: a str or something else
StrItem(t) == [is_str |-> TRUE, s |-> t]
NotStrItem == [is_str |-> FALSE, s |-> <<>>]
\* the strings of a backend: empty, blank, the input again, two variants,
\* and the first variant again with a trailing blank
BackendTexts == {<<>>, <<SP>>, T5 \o <<SP>>, <<"b">>, <<"b", SP>>, <<"c">>}
BackendItems == {StrItem(t) : t \in BackendTexts} \cup {NotStrItem}

\* what one augmenter.augment(text) call can do: raise, return a list of at
\* most k items, return one str, or return something that is neither
BackendOutcomes(k) ==
    {[kind |-> "raise", items |-> <<>>], [kind |-> "other", items |-> <<>>]}
    \cup {[kind |-> "list", items |-> l] :
            l \in UNION {[1..n -> BackendItems] : n \in 0..k}}
    \cup {[kind |-> "str", items |-> <<StrItem(t)>>] : t \in BackendTexts}

\* lines 46-52: the strings of the outcome, appended to augmented_texts
RECURSIVE StrsOf(_)
StrsOf(items) ==
    IF items = <<>> THEN <<>>
    ELSE IF Head(items).is_str THEN <<Head(items).s>> \o StrsOf(Tail(items))
    ELSE StrsOf(Tail(items))

\* line 34: not text or len(text.strip()) < 5
TooShort(t) == t = <<>> \/ Len(Strip(t)) < MinTextLen

\* SelectAugmenter without the fallback to 'en'
SelectAugmenterNoFallback(augs, l) ==
    IF l \in augs THEN l ELSE "None"

\* line 37: self.augmenters.get(lang) or self.augmenters.get('en')
SelectAugmenter(augs, l) ==
    IF l \in augs THEN l ELSE IF "en" \in augs THEN "en" ELSE "None"

\* lines 57-64: strip, drop the empty ones and those equal to the trimmed text
RECURSIVE Normalized(_, _)
Normalized(texts, original) ==
    IF texts = <<>> THEN <<>>
    ELSE LET a == Head(texts)
             a_stripped == Strip(a)
         IN IF a = <<>> \/ a_stripped = <<>> \/ a_stripped = Strip(original)
            THEN Normalized(Tail(texts), original)
            ELSE <<a_stripped>> \o Normalized(Tail(texts), original)

\* Deduplicated that keeps every occurrence
DeduplicatedNot(seq) == seq

\* line 67: list(dict.fromkeys(cleaned))
RECURSIVE Deduplicated(_)
Deduplicated(seq) ==
    IF seq = <<>> THEN <<>>
    ELSE LET front == Deduplicated(SubSeq(seq, 1, Len(seq) - 1))
             x == seq[Len(seq)]
         IN IF \E i \in DOMAIN front : front[i] = x THEN front ELSE Append(front, x)

\* line 43: range(max(1, num_augmentations))
Iterations(n) == IF n > 1 THEN n ELSE 1

\* AugmentationManager() is being constructed
MgrInit ==
    /\ pc = "mgr_init" /\ verbose = FALSE
    /\ Start /\ ReportIdle /\ RunIdle
    /\ config.balance_strategy = "hybrid" /\ config.target_ratio = <<60>>
    /\ config.min_samples_for_balance = 1 /\ config.use_augmentation
    /\ to_init = SupportedLangs /\ augmenters = {}
    /\ text = <<>> /\ lang = "en" /\ num_augmentations = 0 /\ augmenter = "None"
    /\ aug_iter = 0 /\ augmented_texts = <<>> /\ cleaned = <<>>

mgr_frame == <<next_id, config, verbose, report_vars, run_vars, n_games, n_loaded, gid,
               cat_counts_before, collected_reviews, game_stats,
               global_counts_before, global_counts_after, total_augmented,
               total_subsampled, global_stats, call_vars, ret_vars>>

\* lines 15-27: one iteration of the loop over supported_langs; building the
\* augmenter succeeds or raises, and a raise is logged
InitAugmenter ==
    /\ pc = "mgr_init" /\ to_init # {}
    /\ \E l \in to_init, built \in BOOLEAN :
         /\ to_init' = to_init \ {l}
         /\ augmenters' = IF built THEN augmenters \cup {l} ELSE augmenters
    /\ UNCHANGED <<pc, text, lang, num_augmentations, augmenter, aug_iter,
                   augmented_texts, cleaned, mgr_frame>>

\* lines 7-12: the constructor returns
InitDone ==
    /\ pc = "mgr_init" /\ to_init = {}
    /\ pc' = "mgr_ready"
    /\ UNCHANGED <<mgr_vars, mgr_frame>>

\* lines 29-42: augment is called; it returns [] at once for a short text
\* or without an augmenter, and enters its loop otherwise
AugmentCall ==
    /\ pc \in {"mgr_ready", "mgr_done"}
    /\ \E t \in MgrTexts, l \in RequestLangs, n \in 0..MaxNum :
         /\ text' = t /\ lang' = l /\ num_augmentations' = n
         /\ augmenter' = IF TooShort(t) THEN "None" ELSE SelectAugmenter(augmenters, l)
    /\ pc' = IF augmenter' = "None" THEN "mgr_done" ELSE "mgr_loop"
    /\ aug_iter' = 0 /\ augmented_texts' = <<>> /\ cleaned' = <<>>
    /\ UNCHANGED <<to_init, augmenters, mgr_frame>>

\* lines 43-54: one iteration: a backend call, whose failure is logged
BackendCall ==
    /\ pc = "mgr_loop" /\ aug_iter < Iterations(num_augmentations)
    /\ \E out \in BackendOutcomes(MaxBackendTexts - Len(augmented_texts)) :
         augmented_texts' = augmented_texts \o StrsOf(out.items)
    /\ aug_iter' = aug_iter + 1
    /\ UNCHANGED <<pc, to_init, augmenters, text, lang, num_augmentations, augmenter,
                   cleaned, mgr_frame>>

\* lines 56-73: normalise, deduplicate, return
AugmentReturn ==
    /\ pc = "mgr_loop" /\ aug_iter = Iterations(num_augmentations)
    /\ cleaned' = Deduplicated(Normalized(augmented_texts, text))
    /\ pc' = "mgr_done"
    /\ UNCHANGED <<to_init, augmenters, text, lang, num_augmentations, augmenter,
                   aug_iter, augmented_texts, mgr_frame>>

MgrNext == InitAugmenter \/ InitDone \/ AugmentCall \/ BackendCall \/ AugmentReturn

MgrSpec == MgrInit /\ [][MgrNext]_vars

\* ------------------------------------------------------ save_balance_report
\* the stats documents a caller saves, and the time that passes between
\* two steps of the caller, in seconds
ReportDocs == {"stats_a", "stats_b"}
ClockSteps == {20, 60}

\* Timestamp with the seconds kept
TimestampToSecond(c) == c

\* line 9: strftime("%Y%m%d_%H%M") names the minute and drops the seconds
Timestamp(c) == c \div SecondsPerMinute

\* a caller holds a stats dict; base_dir may or may not exist yet
ReportInit ==
    /\ pc = "report" /\ verbose = FALSE
    /\ Start /\ MgrIdle /\ RunIdle
    /\ config.balance_strategy = "hybrid" /\ config.target_ratio = <<60>>
    /\ config.min_samples_for_balance = 1 /\ config.use_augmentation
    /\ clock = 0 /\ dir_exists \in BOOLEAN /\ files = EmptyDict
    /\ saved_at = <<>> /\ report_path = <<>>

report_frame == <<pc, next_id, config, verbose, mgr_vars, run_vars, n_games, n_loaded, gid,
                  cat_counts_before, collected_reviews, game_stats,
                  global_counts_before, global_counts_after, total_augmented,
                  total_subsampled, global_stats, call_vars, ret_vars>>

\* time passes between two calls
Tick ==
    /\ pc = "report"
    /\ \E d \in ClockSteps : clock + d <= MaxClock /\ clock' = clock + d
    /\ UNCHANGED <<dir_exists, files, saved_at, report_path, report_frame>>

\* lines 7-16: makedirs(exist_ok=True), open(report_path, "w"), json.dump
save_balance_report ==
    /\ pc = "report" /\ Len(saved_at) < MaxSaves
    /\ \E doc \in ReportDocs :
         files' = (Timestamp(clock) :> doc) @@ files
    /\ dir_exists' = TRUE
    /\ saved_at' = Append(saved_at, clock)
    /\ report_path' = <<Timestamp(clock)>>
    /\ UNCHANGED <<clock, report_frame>>

ReportNext == Tick \/ save_balance_report

ReportSpec == ReportInit /\ [][ReportNext]_vars

\* ================================================================= claims
Returned == pc = "returned"
InputSet == {reviews[i] : i \in DOMAIN reviews}
SomeCategoryEmpty == \E c \in CatSet : CountCat(reviews, c) = 0
LargestBefore == MaxOf({stats.before[c] : c \in CatSet})

\* C1: whenever a call of balance_single_game returns and at least one
\* configured category has no review in the input, the returned list is the
\* input as a multiset and the stats say strategy "none", balanced false,
\* nothing augmented, nothing subsampled.
C1_SkipWhenAnyCategoryEmpty ==
    (Returned /\ SomeCategoryEmpty) =>
        /\ ret_reviews = BagOf(reviews)
        /\ stats.balanced = FALSE
        /\ stats.strategy = "none"
        /\ stats.augmented_count = 0
        /\ stats.subsampled_count = 0

C3_UndersampleNeverGrows ==
    (pc = "done" /\ config.balance_strategy = "undersample") =>
        global_stats.total_after <= global_stats.total_before

C6_RetryBudget ==
    /\ [](pc = "aug" => /\ aug_calls <= needed * 5
                        /\ attempts = aug_calls
                        /\ Len(augmented_reviews) <= needed)
    /\ [][(pc = "aug" /\ aug_calls' # aug_calls /\ pc' = "aug") =>
             /\ Len(augmented_reviews) < needed
             /\ aug_calls' = aug_calls + 1 /\ aug_calls' <= needed * 5]_vars
    /\ [][pc = "aug" => (pc' # "aug" \/ aug_calls' = aug_calls + 1)]_vars

C6_Witness ==
    /\ pc = "aug" /\ needed = 2 /\ aug_calls = 10 /\ Len(augmented_reviews) = 1

\* the reviews a call has created so far
AddedReviews ==
    {augmented_reviews[i] : i \in DOMAIN augmented_reviews}
    \cup ({balanced_reviews[i] : i \in DOMAIN balanced_reviews} \ InputSet)
    \cup (DOMAIN ret_reviews \ InputSet)

\* C7: every review balance_single_game adds is flagged is_augmented, its
\* augmented_from is the identity of a review of the input list, of the same
\* category and not itself augmented, and its comment differs from that
\* review's trimmed comment.
C7_AugmentedProvenance ==
    \A r \in AddedReviews :
        /\ r.is_augmented = TRUE
        /\ \E src \in InputSet :
             /\ src.id = r.augmented_from
             /\ src.category = r.category
             /\ ~src.is_augmented
             /\ r.comment # Strip(src.comment)

C7_Witness ==
    /\ Returned
    /\ \E r \in DOMAIN ret_reviews, src \in InputSet :
         /\ r.is_augmented /\ src.id = r.augmented_from
         /\ src.comment # Strip(src.comment)

\* C8: when a multi-game run is over, total_after is the sum of the recorded
\* per-game total_after, and for every configured category counts_after has
\* an entry that is the sum of the recorded per-game after-counts.
C8_AggregationMatchesPerGame ==
    pc = "done" =>
        LET gs == global_stats.game_stats
        IN /\ global_stats.total_after =
                SumOver([g \in DOMAIN gs |-> gs[g].total_after], DOMAIN gs)
           /\ \A c \in CatSet :
                /\ c \in DOMAIN global_stats.counts_after
                /\ global_stats.counts_after[c] =
                     SumOver([g \in DOMAIN gs |-> gs[g].counts_after[c]], DOMAIN gs)

\* C9: whenever balance_single_game returns, skipped or not, stats.after has
\* for every configured category the number of reviews of that category in
\* the returned list.
C9_StatsReflectOutput ==
    Returned =>
        /\ DOMAIN stats.after = CatSet
        /\ \A c \in CatSet : stats.after[c] = BagCountCat(ret_reviews, c)

C9_Witness ==
    Returned /\ stats.balanced /\ shortfall # {} /\ stats.augmented_count > 0

\* C10: after a call with strategy oversample that was not skipped, every
\* input review of a configured category is in the output exactly once and
\* subsampled_count is 0.
C10_OversampleKeepsAll ==
    (Returned /\ stats.balanced /\ config.balance_strategy = "oversample") =>
        /\ \A i \in DOMAIN reviews :
             reviews[i].category \in CatSet => CopiesIn(reviews[i], ret_reviews) = 1
        /\ stats.subsampled_count = 0

C10_Witness ==
    /\ Returned /\ stats.balanced /\ config.balance_strategy = "oversample"
    /\ stats.augmented_count > 0 /\ Len(reviews) = 4
    /\ \A c \in CatSet : stats.before[c] > 0

\* the game of the end-to-end examples, balanced with strategy hybrid, no
\* target_ratio, min_samples_for_balance 10 and the mocked augmenter
HybridExample ==
    /\ Returned
    /\ config.balance_strategy = "hybrid" /\ config.target_ratio = <<>>
    /\ config.min_samples_for_balance = 10 /\ config.use_augmentation
    /\ stats.before = [c \in CatSet |-> CASE c = "positive" -> 40
                                          [] c = "neutral" -> 5
                                          [] c = "negative" -> 50]

\* C5, as claimed: the hybrid example derives target_ratio 0.5 and
\* base_target 25, ends with 25 reviews in every category, 40 subsampled and
\* 20 augmented.
C5_HybridExampleAsClaimed ==
    HybridExample =>
        /\ target_ratio = <<50>> /\ base_target = 25
        /\ stats.after = [c \in CatSet |-> 25]
        /\ stats.subsampled_count = 40 /\ stats.augmented_count = 20

\* C5, amended: the hybrid example derives target_ratio 0.6 (50/5 = 10 is
\* not greater than 10) and base_target 30, ends with 30 reviews in every
\* category, 10 + 20 = 30 subsampled and 25 augmented.
C5_HybridExample ==
    HybridExample =>
        /\ target_ratio = <<60>> /\ base_target = 30
        /\ stats.after = [c \in CatSet |-> 30]
        /\ stats.subsampled_count = 30 /\ stats.augmented_count = 25

C5_Witness == HybridExample /\ BagCardinality(ret_reviews) = 90

\* C11: an augment call that raises counts as an attempt that produced no
\* variant: the loop goes on, no review is added for it, the exception never
\* leaves balance_single_game, and from every point inside the call a further
\* step towards its return is possible.
C11_AugmentErrorsSwallowed ==
    /\ [](pc # "raised")
    /\ [](pc \in {"balance", "cat", "aug"} => ENABLED Balance)
    /\ [][(pc = "aug" /\ aug_calls' = aug_calls + 1 /\ aug_raised') =>
             /\ pc' = "aug"
             /\ attempts' = attempts + 1
             /\ augmented_reviews' = augmented_reviews
             /\ augmented_count' = augmented_count]_vars

C11_Witness ==
    /\ pc = "aug" /\ aug_raised /\ needed = 2
    /\ Len(augmented_reviews) = 1 /\ attempts = needed * 5
    /\ ENABLED AugmentEnd

\* C12: a step of the game loop in which the loader yields no review goes on
\* to the next game id without a call of balance_single_game, without a
\* per-game entry, and without a change of the global counters or of the
\* merged collection.
C12_EmptyGameSkipped ==
    [][(pc = "loop" /\ n_games' = n_games + 1 /\ n_loaded' = n_loaded) =>
         /\ pc' = "loop"
         /\ UNCHANGED <<call_vars, ret_vars>>
         /\ UNCHANGED <<game_stats, global_counts_before, global_counts_after,
                        total_augmented, total_subsampled, collected_reviews>>]_vars

C12_Witness ==
    /\ pc = "loop" /\ n_games = 2 /\ n_loaded = 1
    /\ DOMAIN game_stats # {} /\ collected_reviews # EmptyBag

\* the count of category c after balancing, 0 for a category without a key
CountAfterOrZero(c) ==
    IF c \in DOMAIN global_counts_after THEN global_counts_after[c] ELSE 0

\* C13: when a multi-game run is over, balance_ratio_max_min is
\* max(counts_after) / max(min(counts_after), 1) with counts_after taken
\* over every configured category, a category without reviews counting as
\* 0; and it is 0 when no review of a configured category was collected.
\* Fractions are compared by cross-multiplication.
C13_RatioOverAllCategories ==
    pc = "done" =>
        LET vals == {CountAfterOrZero(c) : c \in CatSet}
            hi == MaxOf(vals)
            lo == IF MinOf(vals) > 1 THEN MinOf(vals) ELSE 1
            r == global_stats.balance_ratio_max_min
        IN r[1] * lo = hi * r[2]

\* the position of the first string of augmented_texts that trims to x
FirstAt(x) ==
    MinOf({k \in DOMAIN augmented_texts : Strip(augmented_texts[k]) = x})

\* C14: augment returns only strings that are non-empty after trimming,
\* differ from the trimmed input text and from one another, in the order in
\* which the backend first produced them; and it returns the empty list for
\* a text that is empty or shorter than 5 characters once trimmed.
C14_AugmentReturnsCleanVariants ==
    pc = "mgr_done" =>
        /\ \A i \in DOMAIN cleaned :
             /\ Strip(cleaned[i]) # <<>>
             /\ cleaned[i] # Strip(text)
             /\ \E k \in DOMAIN augmented_texts : Strip(augmented_texts[k]) = cleaned[i]
        /\ \A i, j \in DOMAIN cleaned :
             i < j => (cleaned[i] # cleaned[j] /\ FirstAt(cleaned[i]) < FirstAt(cleaned[j]))
        /\ (text = <<>> \/ Len(Strip(text)) < 5) => cleaned = <<>>

C14_Witness ==
    /\ pc = "mgr_done" /\ cleaned = <<<<"c">>, <<"b">>>>
    /\ augmented_texts = <<<<"c">>, <<"b", SP>>, <<"b">>>>

\* C15: the list augment returns is never longer than num_augmentations.
C15_AtMostCountVariants ==
    pc = "mgr_done" => Len(cleaned) <= num_augmentations

\* C16: the constructor attempts every supported language, whatever failed
\* before, and returns; augment then uses the augmenter of the language asked
\* for if that was built, else the one of 'en' if that was built, and else
\* makes no backend call and returns no variants.
C16_LanguageFallback ==
    /\ [](pc \in {"mgr_ready", "mgr_loop", "mgr_done"} =>
            (to_init = {} /\ augmenters \subseteq SupportedLangs))
    /\ [](pc = "mgr_init" => ENABLED (InitAugmenter \/ InitDone))
    /\ [][(pc = "mgr_init" /\ to_init # {}) =>
            /\ pc' = "mgr_init"
            /\ to_init' \subseteq to_init /\ Cardinality(to_init') = Cardinality(to_init) - 1
            /\ augmenters \subseteq augmenters']_vars
    /\ []((pc \in {"mgr_loop", "mgr_done"} /\ Len(Strip(text)) >= 5) =>
            /\ augmenter = IF lang \in augmenters THEN lang
                           ELSE IF "en" \in augmenters THEN "en" ELSE "None"
            /\ augmenter = "None" => (pc = "mgr_done" /\ cleaned = <<>> /\ aug_iter = 0))

C16_Witness ==
    /\ pc = "mgr_loop" /\ lang = "es" /\ augmenters = {"en"} /\ augmenter = "en"
    /\ aug_iter = 1

\* C17, as claimed: every call of save_balance_report adds a report, so the
\* directory holds as many reports as calls were made.
C17_EveryCallNewFile ==
    pc = "report" => Cardinality(DOMAIN files) = Len(saved_at)

\* C17, amended: the directory holds one report for every minute in which
\* a call was made; a call leaves the reports of all other minutes as they
\* were and replaces the one of its own minute; and a call succeeds whether
\* or not the directory exists, which exists afterwards.
C17_NewFilePerMinute ==
    /\ [](pc = "report" =>
            DOMAIN files = {saved_at[i] \div 60 : i \in DOMAIN saved_at})
    /\ [](saved_at # <<>> => dir_exists)
    /\ []((pc = "report" /\ Len(saved_at) < MaxSaves) => ENABLED save_balance_report)
    /\ [][saved_at' # saved_at =>
            /\ report_path' = <<clock \div 60>>
            /\ report_path'[1] \in DOMAIN files'
            /\ \A t \in DOMAIN files :
                 t # clock \div 60 => (t \in DOMAIN files' /\ files'[t] = files[t])]_vars

C17_Witness ==
    /\ pc = "report" /\ Len(saved_at) = 3 /\ Cardinality(DOMAIN files) = 2
    /\ saved_at[1] \div 60 = saved_at[2] \div 60 /\ files[saved_at[1] \div 60] = "stats_b"

\* the objects created during the running invocation
CreatedInRun == next_id - run_first_id

\* C18: in a sequence of invocations, what balance_single_game returns
\* counts the reviews of its own argument only, and what
\* collect_balanced_reviews_multi_game returns counts only the games it
\* iterated and the reviews its loader returned or its balancing created
\* during that invocation: nothing of an earlier invocation is in the
\* counters, the per-game entries or the merged collection.
C18_NoStateAcrossCalls ==
    /\ (pc = "returned") =>
         /\ \A c \in CatSet : stats.before[c] = CountCat(reviews, c)
         /\ \A r \in DOMAIN ret_reviews : r.id >= run_first_id
         /\ stats.augmented_count + stats.subsampled_count <= CreatedInRun + Len(reviews)
    /\ (pc = "done") =>
         /\ SumValues(global_stats.counts_before) <= n_loaded
         /\ global_stats.total_before <= n_loaded
         /\ global_stats.total_augmented = CreatedInRun - n_loaded
         /\ global_stats.total_subsampled <= n_loaded
         /\ global_stats.total_after <= CreatedInRun
         /\ SumValues(global_stats.counts_after) <= CreatedInRun
         /\ Cardinality(DOMAIN global_stats.game_stats) <= n_games
         /\ \A r \in DOMAIN collected_reviews : r.id >= run_first_id

C18_Witness ==
    /\ pc = "done" /\ n_runs = 2 /\ run_first_id > 2
    /\ n_loaded = 2 /\ global_stats.total_augmented > 0
    /\ global_stats.total_subsampled = 0 /\ n_games = 2

\* max_count and min_count of a call that has passed the guard
MaxBefore == MaxOf({counts_before[c] : c \in CatSet})
MinBefore == MinOf({counts_before[c] : c \in CatSet} \ {0})
TargetFixed == pc = "cat" /\ ci = 1

\* C19: with strategy hybrid and no target_ratio given, the derived ratio
\* depends on r = max_count / min_count only: 0.5 if r > 10, 0.6 if
\* 5 < r <= 10, 0.75 if 2 < r <= 5, 1.0 if r <= 2; a given target_ratio is
\* used as it is.
C19_HybridRatioBands ==
    (TargetFixed /\ config.balance_strategy = "hybrid") =>
        IF config.target_ratio = <<>>
        THEN target_ratio =
               <<CASE MaxBefore > 10 * MinBefore -> 50
                   [] 5 * MinBefore < MaxBefore /\ MaxBefore <= 10 * MinBefore -> 60
                   [] 2 * MinBefore < MaxBefore /\ MaxBefore <= 5 * MinBefore -> 75
                   [] MaxBefore <= 2 * MinBefore -> 100>>
        ELSE target_ratio = config.target_ratio

C19_Witness ==
    /\ TargetFixed /\ config.balance_strategy = "hybrid" /\ config.target_ratio = <<>>
    /\ target_ratio = <<50>> /\ MinBefore = 1 /\ MaxBefore = 11

\* C20, as claimed: with strategy hybrid, base_target is
\* max(round(max_count * target_ratio), min_samples_for_balance), the
\* product rounded to the nearest integer.
C20_HybridTargetRounded ==
    (TargetFixed /\ config.balance_strategy = "hybrid") =>
        LET t == RoundHalfEven(MaxBefore * target_ratio[1])
            m == config.min_samples_for_balance
        IN base_target = IF t > m THEN t ELSE m

\* C20, amended: with strategy hybrid, base_target is
\* max(t, min_samples_for_balance) where t is max_count * target_ratio
\* truncated: the largest integer not above the product.
C20_HybridTargetTruncated ==
    (TargetFixed /\ config.balance_strategy = "hybrid") =>
        \E t \in 0..MaxBefore :
            /\ 100 * t <= MaxBefore * target_ratio[1]
            /\ MaxBefore * target_ratio[1] < 100 * (t + 1)
            /\ base_target = IF t > config.min_samples_for_balance THEN t
                             ELSE config.min_samples_for_balance

C20_Witness ==
    /\ TargetFixed /\ config.balance_strategy = "hybrid"
    /\ target_ratio = <<60>> /\ MaxBefore = 8 /\ base_target = 4
    /\ config.min_samples_for_balance = 1

\* the categories of a returned call that were larger than the target under
\* a strategy that subsamples
Oversized ==
    IF config.balance_strategy \in {"undersample", "hybrid"}
    THEN {c \in CatSet : stats.before[c] > base_target}
    ELSE {}

UndersampleExample ==
    /\ Returned
    /\ config.balance_strategy = "undersample" /\ config.min_samples_for_balance = 10
    /\ stats.before = [c \in CatSet |-> CASE c = "positive" -> 40
                                          [] c = "neutral" -> 5
                                          [] c = "negative" -> 50]

\* C21: after a call that was not skipped, every category that was larger
\* than the target under undersample or hybrid has exactly target reviews in
\* the output, each of them a review of the input of that category and none
\* more often than the input has it, and subsampled_count is the sum of
\* current - target over these categories; the game {positive: 40,
\* neutral: 5, negative: 50} under undersample with min_samples_for_balance
\* 10 ends with 5 reviews in every category and subsampled_count 80.
C21_SubsampleExactlyTarget ==
    /\ (Returned /\ stats.balanced) =>
         /\ \A c \in Oversized :
              /\ BagCountCat(ret_reviews, c) = base_target
              /\ stats.after[c] = base_target
              /\ \A x \in DOMAIN ret_reviews :
                   x.category = c =>
                     /\ x \in InputSet
                     /\ CopiesIn(x, ret_reviews) <= CopiesIn(x, BagOf(reviews))
         /\ stats.subsampled_count =
              SumOver([c \in Oversized |-> stats.before[c] - base_target], Oversized)
    /\ UndersampleExample =>
         /\ stats.after = [c \in CatSet |-> 5]
         /\ stats.subsampled_count = 80

C21_Witness ==
    /\ Returned /\ stats.balanced /\ config.balance_strategy = "hybrid"
    /\ ~IsExampleCall /\ Len(reviews) = 4
    /\ \E c \in Oversized : stats.before[c] = 3 /\ stats.after[c] = 2

\* the category of the running iteration is below the target with no
\* augmenter passed, or exactly at the target
PassesUnchanged ==
    /\ InCatLoop /\ current # 0
    /\ \/ current < base_target /\ ~config.use_augmentation
       \/ current = base_target

\* the categories of a returned call that were below the target with no
\* augmenter passed, or exactly at the target
Untouched ==
    {c \in CatSet : /\ stats.before[c] # 0
                    /\ \/ stats.before[c] < base_target /\ ~config.use_augmentation
                       \/ stats.before[c] = base_target}

\* C22: a category below the target with no augmenter passed, or exactly at
\* the target, is passed through in one step: its reviews are appended as
\* they are, its after-count is its before-count, augmented_count and
\* subsampled_count stay, nothing is raised and the loop goes on to the
\* next category; when the call returns, the output has exactly the input
\* reviews of that category and the categories above the target of
\* undersample or hybrid are cut to the target.
C22_NoAugmenterPassThrough ==
    /\ [](pc # "raised")
    /\ [](PassesUnchanged => ENABLED Balance)
    /\ [][PassesUnchanged =>
            /\ balanced_reviews' = balanced_reviews \o cat_dict[cat]
            /\ counts_after' = (cat :> counts_before[cat]) @@ counts_after
            /\ augmented_count' = augmented_count
            /\ subsampled_count' = subsampled_count
            /\ pc' = "cat" /\ ci' = ci + 1]_vars
    /\ []((Returned /\ stats.balanced) =>
            /\ \A c \in Untouched :
                 /\ stats.after[c] = stats.before[c]
                 /\ \A x \in DOMAIN ret_reviews :
                      x.category = c => x \in InputSet /\ CopiesIn(x, ret_reviews) = 1
                 /\ \A i \in DOMAIN reviews :
                      reviews[i].category = c => BagIn(reviews[i], ret_reviews)
            /\ \A d \in Oversized : stats.after[d] = base_target)

C22_Witness ==
    /\ Returned /\ stats.balanced /\ ~config.use_augmentation
    /\ stats.augmented_count = 0
    /\ \E c \in Untouched : stats.before[c] < base_target
    /\ \E d \in Oversized : stats.before[d] > stats.after[d]

\* C23: every augment call balance_single_game makes passes the language of
\* the review it picked as the source of that call, 'en' when that review
\* has none.
C23_CallInSourceLanguage ==
    [][(pc = "aug" /\ aug_calls' = aug_calls + 1) => lang' = LanguageOr(aug_base')]_vars

\* the input review an added review was made from
SourceOf(r) == CHOOSE src \in InputSet : src.id = r.augmented_from

\* C24: an augmented review has the username, rating, timestamp, game_id,
\* category and language of its source review; only its comment and the
\* markers is_augmented and augmented_from differ.
C24_AugmentedCopiesAllFields ==
    \A r \in AddedReviews :
        /\ r.username = SourceOf(r).username
        /\ r.rating = SourceOf(r).rating
        /\ r.timestamp = SourceOf(r).timestamp
        /\ r.game_id = SourceOf(r).game_id
        /\ r.category = SourceOf(r).category
        /\ LanguageOr(r) = LanguageOr(SourceOf(r))
        /\ r.is_augmented /\ r.augmented_from = SourceOf(r).id

\* the reviews of the input that have no configured category
Ungrouped == {r \in InputSet : r.category \notin CatSet}

\* C25, as claimed: every review of the list balance_single_game returns has
\* a configured category; an input review without one is never in it.
C25_OnlyGroupedReturned ==
    Returned =>
        /\ \A x \in DOMAIN ret_reviews : x.category \in CatSet
        /\ \A r \in Ungrouped : ~BagIn(r, ret_reviews)

\* C25, amended: every review of the list a call that was not skipped
\* returns has a configured category, and an input review without one is
\* never in it; a skipped call returns its input list as it is, the reviews
\* without a configured category included.
C25_OnlyGroupedReturnedUnlessSkipped ==
    Returned =>
        IF stats.balanced
        THEN /\ \A x \in DOMAIN ret_reviews : x.category \in CatSet
             /\ \A r \in Ungrouped : ~BagIn(r, ret_reviews)
        ELSE ret_reviews = BagOf(reviews)

C25_Witness ==
    /\ Returned /\ stats.balanced /\ Ungrouped # {}
    /\ BagCardinality(ret_reviews) >= 3

AcceptedFor(c) ==
    LET S == {x \in DOMAIN ret_reviews : x.category = c /\ x.is_augmented}
    IN SumOver([x \in S |-> ret_reviews[x]], S)
DiscardedFrom(c) ==
    Cardinality({i \in DOMAIN reviews :
                   reviews[i].category = c /\ ~BagIn(reviews[i], ret_reviews)})

\* C27: in a call that was not skipped no category is both augmented and
\* subsampled, after[c] = before[c] + accepted(c) - discarded(c) for every
\* category, augmented_count and subsampled_count are the totals of the
\* accepted and the discarded, and sum(after) = sum(before) + augmented_count
\* - subsampled_count is the length of the returned list.
C27_CountsConserved ==
    (Returned /\ stats.balanced) =>
        /\ \A c \in CatSet :
             /\ ~(AcceptedFor(c) > 0 /\ DiscardedFrom(c) > 0)
             /\ stats.after[c] = stats.before[c] + AcceptedFor(c) - DiscardedFrom(c)
        /\ stats.augmented_count = SumOver([c \in CatSet |-> AcceptedFor(c)], CatSet)
        /\ stats.subsampled_count = SumOver([c \in CatSet |-> DiscardedFrom(c)], CatSet)
        /\ SumValues(stats.after) =
             SumValues(stats.before) + stats.augmented_count - stats.subsampled_count
        /\ SumValues(stats.after) = BagCardinality(ret_reviews)

C27_Witness ==
    /\ Returned /\ stats.balanced
    /\ stats.augmented_count > 0 /\ stats.subsampled_count > 0

\* the identities of the input reviews
InputIds == {r.id : r \in InputSet}

\* C28: balance_single_game leaves the caller's list as it was, elements,
\* order and length; every review it returns that is not flagged augmented
\* is an input review with every field as it was; and every review it adds
\* is a new object, none of the input.
C28_InputUnchanged ==
    /\ [][pc # "call" => reviews' = reviews]_vars
    /\ [](\A x \in DOMAIN ret_reviews : ~x.is_augmented => x \in InputSet)
    /\ [](\A i \in DOMAIN balanced_reviews :
            ~balanced_reviews[i].is_augmented => balanced_reviews[i] \in InputSet)
    /\ [](\A r \in AddedReviews : r \notin InputSet /\ r.id \notin InputIds)

C28_Witness ==
    /\ Returned /\ stats.balanced /\ Len(reviews) = 4
    /\ stats.augmented_count > 0 /\ stats.subsampled_count > 0

\* C29: a configured category that has no review in the input has none in
\* the output, whatever the strategy, the augmenter and the input, and no
\* augmentation loop is entered, so no augmenter call is made, for it.
C29_EmptyCategoryStaysEmpty ==
    /\ pc = "aug" => current # 0 /\ counts_before[cat] # 0
    /\ Returned =>
         \A c \in CatSet :
            stats.before[c] = 0 =>
              /\ stats.after[c] = 0
              /\ BagCountCat(ret_reviews, c) = 0

C29_Witness ==
    /\ Returned /\ stats.balanced /\ config.balance_strategy = "oversample"
    /\ stats.augmented_count > 0
    /\ \E c \in CatSet : stats.before[c] = 0

\* C30: the loader's reviews are not flagged is_augmented; whenever a game
\* has been processed total_augmented has grown by the augmented_count of
\* that game's BalanceStats and total_subsampled by its subsampled_count,
\* and between games total_augmented is the number of flagged reviews in the
\* merged collection.
C30_AugmentationTotalsAgree ==
    /\ [][(pc = "returned" /\ pc' = "loop") =>
            /\ total_augmented' = total_augmented + stats.augmented_count
            /\ total_subsampled' = total_subsampled + stats.subsampled_count]_vars
    /\ [](pc \in {"loop", "done"} =>
            total_augmented = AugmentedIn(collected_reviews))
    /\ [](pc = "done" =>
            /\ global_stats.total_augmented = AugmentedIn(collected_reviews)
            /\ global_stats.total_subsampled = total_subsampled)

C30_Witness ==
    /\ pc = "done" /\ n_games = 2
    /\ global_stats.total_augmented = 2
    /\ BagCardinality(collected_reviews) = 4

====
